---- MODULE Spec2Model ----
(***************************************************************************)
(* Model of src/app.py, the Lebanese immigration dashboard: load_data,     *)
(* create_stacked_bar_chart, create_governorate_analysis and the sections  *)
(* of main.  A run starts from one CSV file, loads it, and then either     *)
(* executes main() section by section or calls create_stacked_bar_chart    *)
(* directly with caller-chosen arguments (the function is importable:      *)
(* main() only runs under the __main__ guard, line 315).                   *)
(*                                                                         *)
(* pandas/numpy behaviour the code relies on is modelled by its contract:  *)
(*   - read_csv turns an empty cell into NaN;                              *)
(*   - to_numeric(errors='coerce') turns unparsable text into NaN;         *)
(*   - groupby drops the rows whose key is NaN and sorts the keys;         *)
(*   - sort_values uses kind='quicksort', which is not stable: the order   *)
(*     of rows with equal keys is one the build chooses;                   *)
(*   - nlargest(n) returns nothing for n <= 0, sorts with sort_values when *)
(*     n >= len, and otherwise selects with a stable sort (keep='first').  *)
(***************************************************************************)
EXTENDS Integers, Sequences, FiniteSets, TLC

VARIABLES
    csv,                      \* the file 'leb immigrants.csv'
    pc,                       \* position of the script
    err,                      \* the exception that ended the script, or "none"
    df,                       \* the loaded DataFrame, a sequence of rows
    total_immigrants,         \* line 160
    districts_with_immigrants,\* line 169
    top_district,             \* line 178
    top_count,                \* line 179
    nationality_totals,       \* lines 190-194 and 288-292, in insertion order
    top_nationality,          \* line 195
    selected_nationalities,   \* line 219
    fig1,                     \* line 230, or the result of a direct call
    insight1,                 \* lines 235-243
    fig2,                     \* line 261
    gov_data,                 \* lines 265-267
    insight2,                 \* lines 268-276
    top_districts_table,      \* line 302
    call_n                    \* top_n of a direct call of create_stacked_bar_chart

vars == <<csv, pc, err, df, total_immigrants, districts_with_immigrants,
          top_district, top_count, nationality_totals, top_nationality,
          selected_nationalities, fig1, insight1, fig2, gov_data, insight2,
          top_districts_table, call_n>>

(***************************************************************************)
(* Bounds and program constants                                            *)
(***************************************************************************)
\* Largest number of data rows of the CSV file.
MaxRows == 2

\* st.sidebar.slider(min_value=5, max_value=20), lines 210-211.
SliderMin == 5
SliderMax == 20
\* df.nlargest(10, ...), line 302.
TableN == 10
\* gov_data.head(3), line 275.
HeadN == 3

\* numeric_cols, lines 59-60.  The model tracks the first two of the six
\* columns of the list; every column goes through the same code.
numeric_cols == <<"Number of Bangladeshi", "Number of Sri Lankan">>

ColSet == {numeric_cols[i] : i \in 1..Len(numeric_cols)}

\* col.replace('Number of ', ''), lines 83, 194, 218, 234, 292.
StripPrefix(col) ==
    CASE col = "Number of Bangladeshi" -> "Bangladeshi"
      [] col = "Number of Sri Lankan"  -> "Sri Lankan"
      [] OTHER -> col

\* all_nationalities, line 218.
all_nationalities == [i \in 1..Len(numeric_cols) |-> StripPrefix(numeric_cols[i])]

NatSet == {all_nationalities[i] : i \in 1..Len(all_nationalities)}

(***************************************************************************)
(* The input file                                                          *)
(***************************************************************************)
\* Text of a numeric cell: "" is an empty cell, "N/A" is unparsable text.
\* The first column takes the irregular texts and a count, the second only
\* clean counts.
CellTexts(col) ==
    IF col = numeric_cols[1] THEN {"", "N/A", "-1", "1"} ELSE {"0", "1"}

\* A URI is the sequence of its '/'-separated segments; << >> is an empty cell.
GovURIs == { << >>, <<"resource", "Beqaa">>, <<"resource", "Mount_Lebanon">> }

\* The i-th row's district URI.
DistrictURI(i) == <<"resource", <<"Zahle", "Baabda", "Aley">>[i]>>

\* The rows a file with these numeric columns may hold.
RawRows(header) ==
    { r \in [ gov : GovURIs, cells : [header -> UNION {CellTexts(c) : c \in header}] ] :
        \A c \in header : r.cells[c] \in CellTexts(c) }

\* The data rows of a file: at most MaxRows of them.
Tables(header) == UNION { [1..n -> RawRows(header)] : n \in 0..MaxRows }

(***************************************************************************)
(* load_data                                                               *)
(***************************************************************************)
\* The integer a numeral denotes.
Numeral == [s \in {"-1", "0", "1"} |-> IF s = "-1" THEN -1 ELSE IF s = "0" THEN 0 ELSE 1]

\* pd.to_numeric(cell, errors='coerce').fillna(0), line 64: text that is no
\* number, and an empty cell, become NaN and then 0; a number is kept as is.
Coerce(text) == IF text \in DOMAIN Numeral THEN Numeral[text] ELSE 0

\* .str.replace('_', ' '), lines 67-68.
ReplaceUnderscore(seg) ==
    CASE seg = "Mount_Lebanon" -> "Mount Lebanon"
      [] OTHER -> seg

\* .str.split('/').str[-1].str.replace('_', ' '), lines 67-68; NaN stays NaN.
NaN == "NaN"

ExtractName(uri) ==
    IF uri = << >> THEN NaN ELSE ReplaceUnderscore(uri[Len(uri)])

RECURSIVE SumSeq(_)
SumSeq(s) == IF s = << >> THEN 0 ELSE s[1] + SumSeq(Tail(s))

\* df[numeric_cols].sum(axis=1) of one row, line 71.
RowTotal(counts) == SumSeq([i \in 1..Len(numeric_cols) |-> counts[numeric_cols[i]]])

LoadRow(raw, i) ==
    LET counts == [c \in ColSet |-> Coerce(raw.cells[c])]
    IN  [ District         |-> ExtractName(DistrictURI(i)),
          Governorate      |-> ExtractName(raw.gov),
          counts           |-> counts,
          Total_Immigrants |-> RowTotal(counts) ]

\* The exception load_data raises on this file, or "none".
LoadError(file) ==
    IF Len(file.rows) > 0 /\ \A i \in 1..Len(file.rows) : file.rows[i].gov = << >>
    THEN "AttributeError"      \* .str on an all-NaN (float) column, line 68
    ELSE IF file.header # ColSet
    THEN "KeyError"            \* df[numeric_cols] with a column missing, line 71
    ELSE "none"

(***************************************************************************)
(* pandas operations used by the queries                                   *)
(***************************************************************************)
\* The 'Total_Immigrants' column of a frame.
Totals(frame) == [i \in 1..Len(frame) |-> frame[i].Total_Immigrants]

\* df[col].sum(), lines 192, 242, 290.
ColSum(frame, col) == SumSeq([i \in 1..Len(frame) |-> frame[i].counts[col]])

Perms(n) == { p \in [1..n -> 1..n] : \A i, j \in 1..n : i # j => p[i] # p[j] }

IsDescending(p, key) == \A i \in 1..(Len(p) - 1) : key[p[i]] >= key[p[i + 1]]

IsAscending(p, key) == \A i \in 1..(Len(p) - 1) : key[p[i]] <= key[p[i + 1]]

KeepsInputOrder(p, key) ==
    \A i, j \in 1..Len(p) : (i < j /\ key[p[i]] = key[p[j]]) => p[i] < p[j]

\* The orders sort_values(key, ascending=False) may produce: kind='quicksort'
\* is not stable, so rows with equal keys come in an order the build chooses.
SortValuesDesc(key) == { p \in Perms(Len(key)) : IsDescending(p, key) }

\* sort_values(key, ascending=True), line 121.
SortValuesAsc(key) == { p \in Perms(Len(key)) : IsAscending(p, key) }

\* A stable descending argsort (kind='mergesort'), the fast path of nlargest.
StableDesc(key) ==
    CHOOSE p \in Perms(Len(key)) : IsDescending(p, key) /\ KeepsInputOrder(p, key)

\* The row positions Series.nlargest(n, keep='first') may return, in order:
\* nothing for n <= 0; for n >= len the whole series through sort_values;
\* otherwise the first n of a stable descending sort.
NLargest(key, n) ==
    IF n <= 0 THEN { << >> }
    ELSE IF n >= Len(key) THEN SortValuesDesc(key)
    ELSE { SubSeq(StableDesc(key), 1, n) }

Take(frame, p) == [i \in 1..Len(p) |-> frame[p[i]]]

\* idxmax as it would be if it returned the last position of the maximum.
IdxMaxLast(key) ==
    CHOOSE i \in 1..Len(key) :
        /\ \A j \in 1..Len(key) : key[j] <= key[i]
        /\ \A j \in (i + 1)..Len(key) : key[j] < key[i]

\* Series.idxmax(), line 178: the first position of the maximum.
IdxMax(key) ==
    CHOOSE i \in 1..Len(key) :
        /\ \A j \in 1..Len(key) : key[j] <= key[i]
        /\ \A j \in 1..(i - 1) : key[j] < key[i]

\* Governorate names in ascending (lexicographic) order, as groupby sorts them.
GovOrder == <<"Beqaa", "Mount Lebanon">>

\* df.groupby('Governorate')[numeric_cols].sum().reset_index() followed by
\* gov_data['Total'] = gov_data[numeric_cols].sum(axis=1), lines 116-117 and
\* 265-266: one row per governorate that occurs, keys ascending; rows whose
\* Governorate is NaN belong to no group (dropna=True).
GroupByGovernorate(frame) ==
    LET present(g) == \E i \in 1..Len(frame) : frame[i].Governorate = g
        keys == SelectSeq(GovOrder, present)
        members(g) == SelectSeq(frame, LAMBDA r : r.Governorate = g)
        row(g) ==
            LET counts == [c \in ColSet |-> ColSum(members(g), c)]
            IN  [Governorate |-> g, counts |-> counts, Total |-> RowTotal(counts)]
    IN  [k \in 1..Len(keys) |-> row(keys[k])]

GovTotals(g) == [i \in 1..Len(g) |-> g[i].Total]

\* part / whole * 100 on numpy numbers, lines 243 and 275: a zero divisor
\* gives nan (0/0) or an infinity with a RuntimeWarning, not an exception.
Percent(part, whole) ==
    IF whole = 0
    THEN [kind |-> IF part = 0 THEN "nan" ELSE IF part > 0 THEN "inf" ELSE "-inf",
          num |-> 0, den |-> 1]
    ELSE [kind |-> "finite", num |-> part * 100, den |-> whole]

\* The dict built by lines 190-194 and 288-292, as its items in insertion order.
NationalityTotals(frame) ==
    LET kept == SelectSeq(numeric_cols, LAMBDA c : ColSum(frame, c) > 0)
    IN  [i \in 1..Len(kept) |-> [name |-> StripPrefix(kept[i]), total |-> ColSum(frame, kept[i])]]

\* max(nationality_totals, key=nationality_totals.get), line 195: the first
\* key, in insertion order, with the largest value.
MaxKey(items) ==
    LET i == IdxMax([k \in 1..Len(items) |-> items[k].total])
    IN  items[i].name

\* cols_to_show / filtered_cols, lines 83 and 234.
ColsToShow(selected) == SelectSeq(numeric_cols, LAMBDA c : StripPrefix(c) \in selected)

\* create_stacked_bar_chart, lines 78-112, given the order nlargest returned:
\* the x axis holds the top districts, and there is one trace per shown column.
StackedBarChart(frame, top, selected) ==
    LET top_districts == Take(frame, top)
        cols == ColsToShow(selected)
    IN  [ x      |-> [i \in 1..Len(top_districts) |-> top_districts[i].District],
          traces |-> [k \in 1..Len(cols) |->
                        [ name |-> StripPrefix(cols[k]),
                          y    |-> [i \in 1..Len(top_districts) |-> top_districts[i].counts[cols[k]]] ]] ]

Init ==
    /\ csv \in [exists : {FALSE}, header : {{}}, rows : {<< >>}]
               \cup UNION { [exists : {TRUE}, header : {h}, rows : Tables(h)] : h \in SUBSET ColSet }
    /\ pc = "start"
    /\ err = "none"
    /\ df = << >>
    /\ total_immigrants = 0
    /\ districts_with_immigrants = 0
    /\ top_district = ""
    /\ top_count = 0
    /\ nationality_totals = << >>
    /\ top_nationality = ""
    /\ selected_nationalities = {}
    /\ fig1 = [x |-> << >>, traces |-> << >>]
    /\ insight1 = [district |-> "", total |-> 0, selected |-> 0, pct |-> [kind |-> "none", num |-> 0, den |-> 1]]
    /\ fig2 = [kind |-> "", rows |-> << >>]
    /\ gov_data = << >>
    /\ insight2 = [governorate |-> "", total |-> 0, pct |-> [kind |-> "none", num |-> 0, den |-> 1], active |-> 0]
    /\ top_districts_table = << >>
    /\ call_n = 0

\* load_data, lines 52-76, and main's check of its result, lines 139-142.
LoadData ==
    /\ pc = "start"
    /\ IF ~csv.exists
       THEN /\ pc' = "stopped"          \* st.error, return None, None; st.stop()
            /\ UNCHANGED <<err, df>>
       ELSE IF LoadError(csv) # "none"
       THEN /\ pc' = "crashed"
            /\ err' = LoadError(csv)
            /\ UNCHANGED df
       ELSE /\ pc' = "loaded"
            /\ df' = [i \in 1..Len(csv.rows) |-> LoadRow(csv.rows[i], i)]
            /\ UNCHANGED err
    /\ UNCHANGED <<csv, total_immigrants, districts_with_immigrants, top_district,
                   top_count, nationality_totals, top_nationality,
                   selected_nationalities, fig1, insight1, fig2, gov_data, insight2,
                   top_districts_table, call_n>>

\* main, lines 156-202: the four key metrics.  idxmax of an empty column and
\* max() of an empty dict raise ValueError, which ends the script.
KeyMetrics ==
    /\ pc = "loaded"
    /\ total_immigrants' = SumSeq(Totals(df))
    /\ districts_with_immigrants' = Cardinality({i \in 1..Len(df) : df[i].Total_Immigrants > 0})
    /\ IF Len(df) = 0
       THEN /\ pc' = "crashed"
            /\ err' = "ValueError"
            /\ UNCHANGED <<top_district, top_count, nationality_totals, top_nationality>>
       ELSE /\ top_district' = df[IdxMax(Totals(df))].District
            /\ top_count' = Totals(df)[IdxMax(Totals(df))]
            /\ nationality_totals' = NationalityTotals(df)
            /\ IF NationalityTotals(df) = << >>
               THEN /\ pc' = "crashed"
                    /\ err' = "ValueError"
                    /\ UNCHANGED top_nationality
               ELSE /\ pc' = "metrics"
                    /\ top_nationality' = MaxKey(NationalityTotals(df))
                    /\ UNCHANGED err
    /\ UNCHANGED <<csv, df, selected_nationalities, fig1, insight1, fig2, gov_data,
                   insight2, top_districts_table, call_n>>

\* main, lines 204-248: the slider, the multiselect, the stacked bar chart and
\* its insights; with nothing selected only a warning is shown.  top_n is any
\* value of the slider; both nlargest(top_n, ...) calls (lines 80 and 243) run
\* on the same values in the same process and give the same rows.
DistrictSection ==
    /\ pc = "metrics"
    /\ \E sel \in SUBSET NatSet :
        /\ selected_nationalities' = sel
        /\ IF sel # {}
           THEN \E top \in UNION { NLargest(Totals(df), top_n) : top_n \in SliderMin..SliderMax },
                   one \in NLargest(Totals(df), 1) :
                  LET top_district_data == df[one[1]]
                      filtered_cols == ColsToShow(sel)
                  IN  /\ fig1' = StackedBarChart(df, top, sel)
                      /\ insight1' =
                           [ district |-> top_district_data.District,
                             total    |-> top_district_data.Total_Immigrants,
                             selected |-> SumSeq([k \in 1..Len(filtered_cols) |->
                                                    ColSum(df, filtered_cols[k])]),
                             pct      |-> Percent(SumSeq(Totals(Take(df, top))),
                                                  SumSeq(Totals(df))) ]
           ELSE UNCHANGED <<fig1, insight1>>
    /\ pc' = "district"
    /\ UNCHANGED <<csv, err, df, total_immigrants, districts_with_immigrants,
                   top_district, top_count, nationality_totals, top_nationality,
                   fig2, gov_data, insight2, top_districts_table, call_n>>

\* main, lines 250-279: the chart type, create_governorate_analysis (lines
\* 114-135) and the governorate insights.  Both sorts run on the same values
\* in the same process, so they give the same order.
GovernorateSection ==
    /\ pc = "district"
    /\ \E chart_type \in {"Horizontal Bar", "Pie Chart"} :
       \E p \in SortValuesDesc(GovTotals(GroupByGovernorate(df))) :
         LET sorted == Take(GroupByGovernorate(df), p)
             head   == SubSeq(sorted, 1, IF Len(sorted) < HeadN THEN Len(sorted) ELSE HeadN)
         IN  /\ IF chart_type = "Horizontal Bar"
                THEN \E q \in SortValuesAsc(GovTotals(sorted)) :
                       fig2' = [kind |-> chart_type,
                                rows |-> [i \in 1..Len(q) |-> sorted[q[i]].Governorate]]
                ELSE fig2' = [kind |-> chart_type,
                              rows |-> [i \in 1..Len(sorted) |-> sorted[i].Governorate]]
             /\ gov_data' = sorted
             /\ IF Len(sorted) = 0
                THEN /\ pc' = "crashed"          \* gov_data.iloc[0], line 268
                     /\ err' = "IndexError"
                     /\ UNCHANGED insight2
                ELSE /\ pc' = "governorate"
                     /\ insight2' =
                          [ governorate |-> sorted[1].Governorate,
                            total       |-> sorted[1].Total,
                            pct         |-> Percent(SumSeq(GovTotals(head)),
                                                    SumSeq(GovTotals(sorted))),
                            active      |-> Cardinality({i \in 1..Len(sorted) : sorted[i].Total > 0}) ]
                     /\ UNCHANGED err
    /\ UNCHANGED <<csv, df, total_immigrants, districts_with_immigrants,
                   top_district, top_count, nationality_totals, top_nationality,
                   selected_nationalities, fig1, insight1, top_districts_table, call_n>>

\* main, lines 281-304: the nationality pie and the top-10 table.
DetailSection ==
    /\ pc = "governorate"
    /\ nationality_totals' = NationalityTotals(df)
    /\ \E top \in NLargest(Totals(df), TableN) :
         top_districts_table' =
            [i \in 1..Len(top) |-> [ District         |-> df[top[i]].District,
                                     Governorate      |-> df[top[i]].Governorate,
                                     Total_Immigrants |-> df[top[i]].Total_Immigrants ]]
    /\ pc' = "done"
    /\ UNCHANGED <<csv, err, df, total_immigrants, districts_with_immigrants,
                   top_district, top_count, top_nationality, selected_nationalities,
                   fig1, insight1, fig2, gov_data, insight2, call_n>>

\* The top_n values a direct caller passes.
CallNs == (0 - 1)..(MaxRows + 1)

\* A direct call create_stacked_bar_chart(df, numeric_cols, top_n, selected),
\* lines 78-112, on the loaded frame.
CallStackedBar ==
    /\ pc = "loaded"
    /\ \E top_n \in CallNs, sel \in SUBSET NatSet :
       \E top \in NLargest(Totals(df), top_n) :
         /\ call_n' = top_n
         /\ selected_nationalities' = sel
         /\ fig1' = StackedBarChart(df, top, sel)
    /\ pc' = "called"
    /\ UNCHANGED <<csv, err, df, total_immigrants, districts_with_immigrants,
                   top_district, top_count, nationality_totals, top_nationality,
                   insight1, fig2, gov_data, insight2, top_districts_table>>

Next ==
    \/ LoadData
    \/ KeyMetrics
    \/ DistrictSection
    \/ GovernorateSection
    \/ DetailSection
    \/ CallStackedBar

Spec == Init /\ [][Next]_vars


(***************************************************************************)
(* Positions of the script                                                 *)
(***************************************************************************)
\* load_data returned a frame.
Loaded ==
    \/ pc \in {"loaded", "called", "metrics", "district", "governorate", "done"}
    \/ pc = "crashed" /\ err \in {"ValueError", "IndexError"}

\* The key metrics ran up to the nationality totals (line 194).
MetricsRan ==
    \/ pc \in {"metrics", "district", "governorate", "done"}
    \/ pc = "crashed" /\ err = "ValueError" /\ Len(df) > 0

\* The stacked bar chart of main was drawn.
ChartDrawn == pc \in {"district", "governorate", "done"} /\ selected_nationalities # {}

\* The governorate insights were computed.
GovernorateRan == pc \in {"governorate", "done"}

Min(a, b) == IF a < b THEN a ELSE b

\* The row of df a district name stands for (district names are distinct).
RowOf(name) == CHOOSE i \in 1..Len(df) : df[i].District = name

IsPrefix(s, t) == Len(s) <= Len(t) /\ \A i \in 1..Len(s) : s[i] = t[i]

\* A record's total over the selected categories only.
SelectedTotal(r, selected) ==
    SumSeq([k \in 1..Len(ColsToShow(selected)) |-> r.counts[ColsToShow(selected)[k]]])

\* Height of the i-th bar of a stacked chart: the sum of its traces there.
BarHeight(fig, i) == SumSeq([k \in 1..Len(fig.traces) |-> fig.traces[k].y[i]])

(***************************************************************************)
(* Claims                                                                  *)
(***************************************************************************)
\* C1: after loading, every record of the file is in the frame and every
\* category count is non-negative; an empty, unparsable or negative cell is
\* stored as 0.
C1_CountsNonNegative ==
    Loaded =>
        /\ Len(df) = Len(csv.rows)
        /\ \A i \in 1..Len(df) : \A c \in ColSet :
              /\ df[i].counts[c] >= 0
              /\ csv.rows[i].cells[c] \in {"", "N/A", "-1"} => df[i].counts[c] = 0

\* C2: every record's total is the sum of its counts; every governorate
\* summary's total is the sum of its counts, each the sum of that category
\* over the records of that governorate; and the group totals add up to the
\* sum of all record totals.
C2_TotalsAddUp ==
    /\ Loaded => \A i \in 1..Len(df) :
                    df[i].Total_Immigrants = df[i].counts[numeric_cols[1]] + df[i].counts[numeric_cols[2]]
    /\ GovernorateRan =>
          /\ \A k \in 1..Len(gov_data) :
                /\ gov_data[k].Total = gov_data[k].counts[numeric_cols[1]] + gov_data[k].counts[numeric_cols[2]]
                /\ \A c \in ColSet :
                      gov_data[k].counts[c] =
                          SumSeq([i \in 1..Len(df) |->
                                    IF df[i].Governorate = gov_data[k].Governorate
                                    THEN df[i].counts[c] ELSE 0])
          /\ SumSeq(GovTotals(gov_data)) = SumSeq(Totals(df))

\* C3: a call with n <= 0 does not return a chart: it fails with
\* InvalidArgument.
C3_NonPositiveNFails ==
    (pc = "called" /\ call_n <= 0) => err = "InvalidArgument"

\* C4: for n >= 1 the chart of a direct call shows exactly min(n, len) records,
\* by total descending, equal totals in input order, and it is a prefix of
\* every result for n + 1.
C4_TopNOrdered ==
    (pc = "called" /\ call_n >= 1) =>
        LET top == [i \in 1..Len(fig1.x) |-> RowOf(fig1.x[i])]
        IN  /\ Len(fig1.x) = Min(call_n, Len(df))
            /\ IsDescending(top, Totals(df))
            /\ KeepsInputOrder(top, Totals(df))
            /\ \A t \in NLargest(Totals(df), call_n + 1) : IsPrefix(top, t)

\* C5: a share computed over a whole of 0 is 0.0: the share of the top-N
\* districts and the share of the top 3 governorates.
C5_ZeroWholeGivesZero ==
    /\ (ChartDrawn /\ SumSeq(Totals(df)) = 0) =>
          (insight1.pct.kind = "finite" /\ insight1.pct.num = 0)
    /\ (GovernorateRan /\ SumSeq(GovTotals(gov_data)) = 0) =>
          (insight2.pct.kind = "finite" /\ insight2.pct.num = 0)

\* C6: with no category total in the mapping the leading category fails with
\* the error EmptyDataset; otherwise it is a category with the largest grand
\* total, reported with that total.
C6_LeadingCategory ==
    MetricsRan =>
        IF nationality_totals = << >>
        THEN err = "EmptyDataset"
        ELSE /\ err = "none"
             /\ \E k \in 1..Len(nationality_totals) :
                   /\ nationality_totals[k].name = top_nationality
                   /\ \A c \in ColSet : ColSum(df, c) <= nationality_totals[k].total

\* C7: the filtered view ranks and reports by the total over the selected
\* categories only (the height of a record's bar): in the chart main draws
\* and in the one a direct call returns the bars come by that total
\* descending, and no record left out has a larger one than a record shown.
C7_RankedBySelectedTotal ==
    (ChartDrawn \/ pc = "called") =>
        /\ \A i \in 1..(Len(fig1.x) - 1) : BarHeight(fig1, i) >= BarHeight(fig1, i + 1)
        /\ \A i \in 1..Len(fig1.x) : \A j \in 1..Len(df) :
              (\A k \in 1..Len(fig1.x) : fig1.x[k] # df[j].District) =>
                  BarHeight(fig1, i) >= SelectedTotal(df[j], selected_nationalities)

\* C8: the category totals hold each category's sum over all records, and a
\* category is in the mapping exactly when that sum is not 0.
C8_NonZeroCategories ==
    MetricsRan =>
        /\ \A k \in 1..Len(nationality_totals) :
              /\ nationality_totals[k].total # 0
              /\ \E c \in ColSet : /\ StripPrefix(c) = nationality_totals[k].name
                                   /\ ColSum(df, c) = nationality_totals[k].total
        /\ \A c \in ColSet :
              ColSum(df, c) # 0 =>
                  \E k \in 1..Len(nationality_totals) : nationality_totals[k].name = StripPrefix(c)

\* C9: there is exactly one summary per governorate that occurs, the summaries
\* come by total descending, and two summaries with equal totals come in
\* ascending order of their governorate.
C9_GovernorateOrder ==
    GovernorateRan =>
        /\ \A g \in {df[i].Governorate : i \in 1..Len(df)} \ {NaN} :
              Cardinality({k \in 1..Len(gov_data) : gov_data[k].Governorate = g}) = 1
        /\ \A k \in 1..Len(gov_data) : \E i \in 1..Len(df) : df[i].Governorate = gov_data[k].Governorate
        /\ \A k \in 1..(Len(gov_data) - 1) :
              /\ gov_data[k].Total >= gov_data[k + 1].Total
              /\ gov_data[k].Total = gov_data[k + 1].Total =>
                    \E a, b \in 1..Len(GovOrder) :
                        /\ a < b
                        /\ GovOrder[a] = gov_data[k].Governorate
                        /\ GovOrder[b] = gov_data[k + 1].Governorate

\* C10: on a non-empty frame the 'Top District' metric names the first record,
\* in input order, among those with the largest total, and the district
\* insight names that same record with the same total.
C10_LeadingRecord ==
    /\ MetricsRan =>
          /\ \A j \in 1..Len(df) : df[j].Total_Immigrants <= top_count
          /\ df[RowOf(top_district)].Total_Immigrants = top_count
          /\ \A j \in 1..(RowOf(top_district) - 1) : df[j].Total_Immigrants < top_count
    /\ ChartDrawn =>
          /\ insight1.district = top_district
          /\ insight1.total = top_count

\* C10's case: two records share the largest total and the insight was shown.
C10_Witness ==
    /\ ChartDrawn
    /\ Len(df) = 2
    /\ df[1].Total_Immigrants = df[2].Total_Immigrants
    /\ top_district = df[1].District
    /\ insight1.district = df[1].District
====
